---- MODULE Spec2Model ----
(***************************************************************************)
(* Stock-Analyzer-Bot: the Telegram handlers and the Gemini tool-calling   *)
(* loop of bot_app.py, its tools, its main(), and the load_data.py script. *)
(*                                                                         *)
(* Four state machines share this module, one per unit of the program:     *)
(*   SpecSql   one call of sql_query_executor                              *)
(*   SpecMain  one run of main()                                           *)
(*   SpecLoad  one run of the load_data.py script                          *)
(*   SpecBot   the updates the bot application dispatches, one at a time,  *)
(*             to start_command and handle_message                         *)
(* Each specification leaves the variables of the other units unchanged.   *)
(***************************************************************************)
EXTENDS Integers, Sequences, FiniteSets

VARIABLES
    \* ---- sql_query_executor ----
    sq_pc,        \* "call" before the call, "done" after it
    sq_world,     \* what the database does during the call
    sq_out,       \* what the call produced
    \* ---- main() ----
    mn_pc,        \* "import" | "import_error" | "start" | "done"
    mn_env,       \* the module constants read from the environment
    mn_port_env,  \* the environment's PORT, None when it is not there
    mn_PORT,      \* the module constant PORT, 0 until line 32 has assigned it
    mn_app,       \* what main() did with the Application
    \* ---- load_data.py ----
    ld_pc,        \* "filter" | "connect" | "insert" | "exit"
    ld_csv,       \* the CSV file: whether it reads, its header, its rows
    ld_final,     \* final_df: the CSV row numbers that passed the filter
    ld_columns,   \* COLUMNS
    ld_conn,      \* "none" | "open" | "closed"
    ld_txn,       \* rows inserted and not yet committed
    ld_table,     \* rows this run committed to stock_data
    ld_msg,       \* the last message the script printed
    \* ---- the bot: start_command and handle_message ----
    GENAI_CLIENT, \* TRUE: the client object; FALSE: None (genai.Client() raised)
    chat_data,    \* context.chat_data of every chat
    sessions,     \* chat sessions created so far; a session is known by its number
    pc,           \* "idle" | "await" | "pending" | "loop" | "except_api" |
                  \* "except_other" | "done"
    upd,          \* the update being handled, or handled last
    chat_session, \* handle_message's local
    response,     \* handle_message's local: the model response held
    inflight,     \* the message send_message hands to the session, until it is taken
    exc,          \* the exception raised inside the try block, if any
    status,       \* the handler: "running" | "returned" | "raised" (left by an exception)
    sent,         \* the Telegram calls of this handling, in order
    llm_calls,    \* send_message calls of this handling
    executed,     \* the tools executed for the response held
    created,      \* whether this handling called get_chat_session
    first_final   \* number of the first response without function calls, 0: none yet

sqlVars  == <<sq_pc, sq_world, sq_out>>
mainVars == <<mn_pc, mn_env, mn_port_env, mn_PORT, mn_app>>
loadVars == <<ld_pc, ld_csv, ld_final, ld_columns, ld_conn, ld_txn, ld_table, ld_msg>>
botVars  == <<GENAI_CLIENT, chat_data, sessions, pc, upd, chat_session, response,
             inflight, exc, status, sent, llm_calls, executed, created, first_final>>
vars     == <<sqlVars, mainVars, loadVars, botVars>>

\* What a step of one unit leaves alone: the other units.
notSql  == <<mainVars, loadVars, botVars>>
notMain == <<sqlVars, loadVars, botVars>>
notLoad == <<sqlVars, mainVars, botVars>>
notBot  == <<sqlVars, mainVars, loadVars>>

None == "None"

(***************************************************************************)
(* Bounds of the model.                                                    *)
(***************************************************************************)
\* Rows a query result may hold beyond the 50 that head(50) keeps.
ExtraRows == 2
\* Rows of the CSV file load_data.py reads.
MaxCsvRows == 3
\* Function calls in one model response.
MaxCalls == 2
\* Model responses with function calls in one handling: the model then
\* answers without function calls, or the call raises.
MaxRounds == 2
\* Chat sessions the Gemini client creates; further chats.create calls raise.
MaxSessions == 2
\* The chats the bot serves.
Chats == {"chatA", "chatB"}

(***************************************************************************)
(* Python values the tools return: a str (a fixed message, or a CSV text   *)
(* given by the rows it holds) or an io.BytesIO buffer.                    *)
(***************************************************************************)
StrVal(tag)  == [type |-> "str", tag |-> tag, rows |-> <<>>]
CsvVal(rows) == [type |-> "str", tag |-> "csv", rows |-> rows]
BytesIOVal   == [type |-> "BytesIO", tag |-> "png", rows |-> <<>>]
NoneVal      == [type |-> "NoneType", tag |-> "None", rows |-> <<>>]

\* str(x): a str is returned as it is, any other object gives its repr text.
PyStr(v) == IF v.type = "str" THEN v ELSE StrVal("repr_of_" \o v.type)

(***************************************************************************)
(* The database as one tool call sees it: whether psycopg2.connect         *)
(* succeeds, whether running the statement raises, and how many rows the   *)
(* statement yields.                                                       *)
(***************************************************************************)
HeadLimit == 50
MaxRows   == HeadLimit + ExtraRows

Worlds(maxRows) == [conn : BOOLEAN, raises : BOOLEAN, nrows : 0..maxRows]

\* db_connect(): the connection, or None when psycopg2.connect raises.
db_connect(w) == IF w.conn THEN "conn" ELSE None

\* df.head(n): the first min(n, len) rows, in the frame's order.
DfHead(nrows, n) == [i \in 1..(IF nrows < n THEN nrows ELSE n) |-> i]

ERR_SQL_CONNECT == StrVal("ERROR: cannot connect to the database (query)")
ERR_SQL         == StrVal("ERROR_SQL: query failed")
NO_DATA         == StrVal("No data found for the query.")

NoCall == [ret |-> NoneVal, raised |-> FALSE, opened |-> FALSE,
           closed |-> FALSE, queried |-> FALSE]

\* A call of sql_query_executor without the try/except around the query.
sql_query_executor_unguarded(w) ==
    LET conn == db_connect(w) IN
    IF conn = None
    THEN [ret |-> ERR_SQL_CONNECT, raised |-> FALSE, opened |-> FALSE,
          closed |-> FALSE, queried |-> FALSE]
    ELSE IF w.raises
    THEN [ret |-> NoneVal, raised |-> TRUE, opened |-> TRUE,
          closed |-> FALSE, queried |-> TRUE]
    ELSE IF w.nrows = 0
    THEN [ret |-> NO_DATA, raised |-> FALSE, opened |-> TRUE,
          closed |-> TRUE, queried |-> TRUE]
    ELSE [ret |-> CsvVal(DfHead(w.nrows, HeadLimit)), raised |-> FALSE,
          opened |-> TRUE, closed |-> TRUE, queried |-> TRUE]

\* sql_query_executor(sql_query): the value returned, whether the call
\* raised, and what it did with the connection.
sql_query_executor(w) ==
    LET conn == db_connect(w) IN
    IF conn = None
    THEN [ret |-> ERR_SQL_CONNECT, raised |-> FALSE, opened |-> FALSE,
          closed |-> FALSE, queried |-> FALSE]
    ELSE IF w.raises
    THEN \* pd.read_sql raised: except branch, conn.close()
         [ret |-> ERR_SQL, raised |-> FALSE, opened |-> TRUE,
          closed |-> TRUE, queried |-> TRUE]
    ELSE IF w.nrows = 0
    THEN \* conn.close(); df.empty
         [ret |-> NO_DATA, raised |-> FALSE, opened |-> TRUE,
          closed |-> TRUE, queried |-> TRUE]
    ELSE [ret |-> CsvVal(DfHead(w.nrows, HeadLimit)), raised |-> FALSE,
          opened |-> TRUE, closed |-> TRUE, queried |-> TRUE]

SqlIdle == /\ sq_pc = "off"
           /\ sq_world = [conn |-> FALSE, raises |-> FALSE, nrows |-> 0]
           /\ sq_out = NoCall

SqlInit == /\ sq_pc = "call"
           /\ sq_world \in Worlds(MaxRows)
           /\ sq_out = NoCall

SqlCall == /\ sq_pc = "call"
           /\ sq_out' = sql_query_executor(sq_world)
           /\ sq_pc' = "done"
           /\ UNCHANGED <<sq_world, notSql>>

(***************************************************************************)
(* main(): the module constants are os.getenv results, None when the       *)
(* variable is not in the environment, "" when it is there and empty.      *)
(* PORT is converted with int() when the module is imported: a PORT that   *)
(* is there and is no integer makes the import raise, and main() is never  *)
(* called.                                                                 *)
(***************************************************************************)
EnvValues == {None, "", "value"}
EnvNames  == {"TELEGRAM_BOT_TOKEN", "DB_NAME", "DB_USER", "DB_PASSWORD",
              "DB_HOST", "WEBHOOK_URL"}
DbNames   == {"DB_NAME", "DB_USER", "DB_PASSWORD", "DB_HOST"}

\* The PORT texts of the environment and the int() of those that have one.
PortValues == {None, "", "abc", "8080", " 443 "}
DefaultPort == 10000
IntOf(text) == CASE text = "8080"  -> [raised |-> FALSE, value |-> 8080]
                 [] text = " 443 " -> [raised |-> FALSE, value |-> 443]
                 [] OTHER          -> [raised |-> TRUE, value |-> 0]

\* int(os.environ.get('PORT', 10000)) of line 32
port_of(env_port) ==
    IF env_port = None THEN [raised |-> FALSE, value |-> DefaultPort]
    ELSE IntOf(env_port)

\* Python truth of an os.getenv result: None and "" are false.
Truthy(v) == v # None /\ v # ""

NoApp == [built |-> FALSE, handlers |-> <<>>, modes |-> <<>>, port |-> 0]

\* main() with any() where the code has all().
main_any(env, port) ==
    IF ~Truthy(env["TELEGRAM_BOT_TOKEN"]) THEN NoApp
    ELSE IF ~(\E n \in DbNames : Truthy(env[n])) THEN NoApp
    ELSE [built |-> TRUE,
          handlers |-> <<"start_command", "handle_message">>,
          modes |-> IF Truthy(env["WEBHOOK_URL"])
                    THEN <<"webhook">> ELSE <<"polling">>,
          port |-> IF Truthy(env["WEBHOOK_URL"]) THEN port ELSE 0]

\* main(): what it built, the handlers it registered in order, the
\* run_webhook / run_polling calls it made, and the port run_webhook listens
\* on (0: no webhook).
main(env, port) ==
    IF ~Truthy(env["TELEGRAM_BOT_TOKEN"]) THEN NoApp
    ELSE IF ~(\A n \in DbNames : Truthy(env[n])) THEN NoApp
    ELSE [built |-> TRUE,
          handlers |-> <<"start_command", "handle_message">>,
          modes |-> IF Truthy(env["WEBHOOK_URL"])
                    THEN <<"webhook">> ELSE <<"polling">>,
          port |-> IF Truthy(env["WEBHOOK_URL"]) THEN port ELSE 0]

MainIdle == /\ mn_pc = "off"
            /\ mn_env = [n \in EnvNames |-> None]
            /\ mn_port_env = None /\ mn_PORT = 0
            /\ mn_app = NoApp

\* The process before the module is imported: the environment is given.
MainInit == /\ mn_pc = "import"
            /\ mn_env \in [EnvNames -> EnvValues]
            /\ mn_port_env \in PortValues
            /\ mn_PORT = 0
            /\ mn_app = NoApp

\* The import, lines 30-42: the constants are read; int() of line 32 raises
\* for a PORT that is no integer, and the process ends there.
MainImport ==
    /\ mn_pc = "import"
    /\ LET p == port_of(mn_port_env) IN
         IF p.raised
         THEN mn_pc' = "import_error" /\ UNCHANGED mn_PORT
         ELSE mn_pc' = "start" /\ mn_PORT' = p.value
    /\ UNCHANGED <<mn_env, mn_port_env, mn_app, notMain>>

MainRun == /\ mn_pc = "start"
           /\ mn_app' = main(mn_env, mn_PORT)
           /\ mn_pc' = "done"
           /\ UNCHANGED <<mn_env, mn_port_env, mn_PORT, notMain>>

(***************************************************************************)
(* load_data.py.  A Date cell is a text that pandas parses or not; parsed  *)
(* with utc=True it becomes a UTC timestamp, whose year is the year        *)
(* written in the text moved by the cell's UTC offset across a year end    *)
(* (carry).  A row is known by its number in the file.                     *)
(***************************************************************************)
NaT == [nat |-> TRUE, year |-> 0]

DateCells == {[parses |-> FALSE, year |-> 2024, carry |-> 0],
              [parses |-> TRUE, year |-> 2024, carry |-> 0],
              [parses |-> TRUE, year |-> 2024, carry |-> -1],
              [parses |-> TRUE, year |-> 2023, carry |-> 1],
              [parses |-> TRUE, year |-> 2023, carry |-> 0]}
TagCells  == {"technology", "finance"}
CsvRows   == [date : DateCells, tag : TagCells]
CsvHeaders == {<<"Date", "Ticker", "Industry_Tag", "Close", "Volume">>,
               <<"Ticker", "Date", "Close", "Industry_Tag">>,
               <<"Ticker", "Industry_Tag", "Close">>,
               <<"Date", "Ticker", "Close">>}

SeqsUpTo(S, n) == UNION {[1..k -> S] : k \in 0..n}
SeqRange(q) == {q[i] : i \in DOMAIN q}

\* pd.to_datetime(cell, errors='coerce', utc=True)
to_datetime(cell) ==
    IF cell.parses THEN [nat |-> FALSE, year |-> cell.year + cell.carry] ELSE NaT

\* The mask of lines 24-27 taken on the year written in the cell.
RowPasses_local(row) ==
    /\ ~to_datetime(row.date).nat
    /\ row.date.year = 2024
    /\ row.tag = "technology"

\* Lines 19-27 for one row: the Date is parsed, a NaT row is dropped, the
\* year is extracted, and the mask is year == 2024 & Industry_Tag == 'technology'.
RowPasses(row) ==
    LET d == to_datetime(row.date) IN
    /\ ~d.nat
    /\ d.year = 2024
    /\ row.tag = "technology"

\* Boolean indexing df[mask]: the rows from row i on that pass, in file order.
RECURSIVE Masked(_, _)
Masked(rows, i) ==
    IF i > Len(rows) THEN <<>>
    ELSE (IF RowPasses(rows[i]) THEN <<i>> ELSE <<>>) \o Masked(rows, i + 1)

\* final_df of line 33, as the CSV row numbers it holds, in order.
final_df(rows) == Masked(rows, 1)

LoadIdle == /\ ld_pc = "off"
            /\ ld_csv = [readable |-> FALSE, header |-> <<>>, rows |-> <<>>]
            /\ ld_final = <<>> /\ ld_columns = <<>> /\ ld_conn = "none"
            /\ ld_txn = <<>> /\ ld_table = <<>> /\ ld_msg = "none"

LoadInit == /\ ld_pc = "filter"
            /\ ld_csv \in [readable : BOOLEAN, header : CsvHeaders,
                           rows : SeqsUpTo(CsvRows, MaxCsvRows)]
            /\ ld_final = <<>> /\ ld_columns = <<>> /\ ld_conn = "none"
            /\ ld_txn = <<>> /\ ld_table = <<>> /\ ld_msg = "none"

\* Lines 14-46: read, filter, and exit when the read or a column lookup
\* raises or when nothing passed the filter.
LoadFilter ==
    /\ ld_pc = "filter"
    /\ IF \/ ~ld_csv.readable
          \/ "Date" \notin SeqRange(ld_csv.header)
          \/ "Industry_Tag" \notin SeqRange(ld_csv.header)
       THEN /\ ld_msg' = "critical_read" /\ ld_pc' = "exit"
            /\ UNCHANGED <<ld_final, ld_columns>>
       ELSE LET f == final_df(ld_csv.rows) IN
            IF f = <<>>
            THEN /\ ld_msg' = "no_rows" /\ ld_pc' = "exit"
                 /\ ld_final' = f /\ UNCHANGED ld_columns
            ELSE /\ ld_msg' = "filtered" /\ ld_pc' = "connect"
                 /\ ld_final' = f
                 \* df minus Year_Extracted: the CSV's own header
                 /\ ld_columns' = ld_csv.header
    /\ UNCHANGED <<ld_csv, ld_conn, ld_txn, ld_table, notLoad>>

\* Lines 49-82: connect, CREATE TABLE IF NOT EXISTS, commit.  connOk and
\* createOk are what the database does.
LoadConnect ==
    /\ ld_pc = "connect"
    /\ \E connOk \in BOOLEAN, createOk \in BOOLEAN :
         IF ~connOk
         THEN /\ ld_msg' = "critical_db" /\ ld_pc' = "exit" /\ UNCHANGED ld_conn
         ELSE IF ~createOk
         THEN /\ ld_msg' = "critical_db" /\ ld_pc' = "exit" /\ ld_conn' = "closed"
         ELSE /\ ld_msg' = "writing" /\ ld_pc' = "insert" /\ ld_conn' = "open"
    /\ UNCHANGED <<ld_csv, ld_final, ld_columns, ld_txn, ld_table, notLoad>>

\* Lines 87-95: one pass of the loop over final_df.iterrows().  A failed
\* INSERT ends the run: the connection is closed without a commit.
LoadInsert ==
    /\ ld_pc = "insert"
    /\ Len(ld_txn) < Len(ld_final)
    /\ \E insertOk \in BOOLEAN :
         IF insertOk
         THEN /\ ld_txn' = Append(ld_txn, [row |-> ld_final[Len(ld_txn) + 1],
                                           columns |-> ld_columns])
              /\ UNCHANGED <<ld_pc, ld_conn, ld_msg>>
         ELSE /\ ld_txn' = <<>> /\ ld_msg' = "critical_db"
              /\ ld_pc' = "exit" /\ ld_conn' = "closed"
    /\ UNCHANGED <<ld_csv, ld_final, ld_columns, ld_table, notLoad>>

\* Lines 97-105: the loop is over; commit, the success message, close.
LoadCommit ==
    /\ ld_pc = "insert"
    /\ Len(ld_txn) = Len(ld_final)
    /\ \E commitOk \in BOOLEAN :
         IF commitOk
         THEN /\ ld_table' = ld_table \o ld_txn /\ ld_msg' = "success"
         ELSE /\ ld_msg' = "critical_db" /\ UNCHANGED ld_table
    /\ ld_txn' = <<>> /\ ld_pc' = "exit" /\ ld_conn' = "closed"
    /\ UNCHANGED <<ld_csv, ld_final, ld_columns, notLoad>>

(***************************************************************************)
(* The other two tools.  For get_db_schema the world's nrows is the count  *)
(* its information_schema query returns; for plot_data the world tells     *)
(* whether parsing or plotting data_csv raises and how many rows it holds. *)
(***************************************************************************)
ERR_SCHEMA_CONNECT == StrVal("ERROR: cannot connect to the database (schema)")
ERR_NO_TABLE       == StrVal("ERROR: table 'stock_data' not found")
ERR_SCHEMA         == StrVal("ERROR_SCHEMA: reading the schema failed")
SCHEMA_TEXT        == StrVal("SYSTEM_PROMPT after the schema heading")
ERR_PLOT_EMPTY     == StrVal("ERROR_PLOT: no data to plot")
ERR_PLOT           == StrVal("ERROR_PLOT: parsing or plotting failed")

\* get_db_schema()
get_db_schema(w) ==
    IF db_connect(w) = None THEN ERR_SCHEMA_CONNECT
    ELSE IF w.raises THEN ERR_SCHEMA
    ELSE IF w.nrows = 0 THEN ERR_NO_TABLE
    ELSE SCHEMA_TEXT

\* plot_data(data_csv, title, x_col, y_col): the PNG buffer, or an error text.
plot_data(w) ==
    IF w.raises THEN ERR_PLOT
    ELSE IF w.nrows = 0 THEN ERR_PLOT_EMPTY
    ELSE BytesIOVal

(***************************************************************************)
(* The tool-calling loop.  A function call of a model response carries its *)
(* name, its args and the world the tool would meet.  The args are "none"  *)
(* (call.args is None: dict() of it raises TypeError), or a mapping that   *)
(* fits the tool's parameters ("match") or does not ("mismatch": calling   *)
(* the tool with it raises TypeError).                                     *)
(***************************************************************************)
AVAILABLE_TOOLS == <<"get_db_schema", "sql_query_executor", "plot_data">>

GoodWorld == [conn |-> TRUE, raises |-> FALSE, nrows |-> 1]
BadWorld  == [conn |-> TRUE, raises |-> TRUE, nrows |-> 0]

Call(name, args, w) == [name |-> name, args |-> args, world |-> w]

BotCalls == {Call("get_db_schema", "mismatch", GoodWorld),
             Call("sql_query_executor", "match", GoodWorld),
             Call("plot_data", "match", GoodWorld),
             Call("plot_data", "match", BadWorld),
             Call("drop_table", "match", GoodWorld),
             Call("drop_table", "none", GoodWorld)}

SUCCESS_PLOT == StrVal("SUCCESS: plot created and ready to send")
ERR_UNKNOWN  == StrVal("ERROR: Unknown function called.")

\* func_args = dict(call.args) of line 269: the mapping, or TypeError when
\* call.args is None.
dict_args(args) == [raised |-> args = "none", value |-> args]

\* next((f for f in AVAILABLE_TOOLS if f.__name__ == func_name), None)
func_to_call(name) ==
    IF \E i \in DOMAIN AVAILABLE_TOOLS : AVAILABLE_TOOLS[i] = name
    THEN name ELSE None

\* func_to_call with func_args for args that fit
CallTool(name, w) ==
    CASE name = "get_db_schema"      -> get_db_schema(w)
      [] name = "sql_query_executor" -> sql_query_executor(w).ret
      [] name = "plot_data"          -> plot_data(w)

\* types.Part.from_function_response(name=..., response={'result': ...})
Part(name, result) == [name |-> name, result |-> result]

NoParts == [parts |-> <<>>, executed |-> <<>>, plot |-> FALSE, raised |-> FALSE]

\* One pass of the for loop in which an unknown function gets no response.
OneCall_skip_unknown(call, acc) ==
    IF dict_args(call.args).raised THEN [acc EXCEPT !.raised = TRUE]
    ELSE IF func_to_call(call.name) = None THEN acc
    ELSE IF call.args = "mismatch" THEN [acc EXCEPT !.raised = TRUE]
    ELSE LET result == CallTool(call.name, call.world)
             isPlot == call.name = "plot_data" /\ result.type = "BytesIO"
         IN [parts |-> Append(acc.parts,
                         Part(call.name,
                              IF isPlot THEN SUCCESS_PLOT ELSE PyStr(result))),
             executed |-> Append(acc.executed, call.name),
             plot |-> acc.plot \/ isPlot,
             raised |-> FALSE]

\* One pass of the for loop of lines 267-298 over a call: the args are
\* converted first, the name is looked up after.  It gives the tool
\* responses, the tools executed, whether 'plot_buffer' was stored, and
\* whether the pass raised.
OneCall(call, acc) ==
    IF dict_args(call.args).raised THEN [acc EXCEPT !.raised = TRUE]
    ELSE IF func_to_call(call.name) = None
    THEN [acc EXCEPT !.parts = Append(@, Part(call.name, ERR_UNKNOWN))]
    ELSE IF call.args = "mismatch" THEN [acc EXCEPT !.raised = TRUE]
    ELSE LET result == CallTool(call.name, call.world)
             isPlot == call.name = "plot_data" /\ result.type = "BytesIO"
         IN [parts |-> Append(acc.parts,
                         Part(call.name,
                              IF isPlot THEN SUCCESS_PLOT ELSE PyStr(result))),
             executed |-> Append(acc.executed, call.name),
             plot |-> acc.plot \/ isPlot,
             raised |-> FALSE]

\* The for loop from call i on; a pass that raises ends it.
RECURSIVE ForCalls(_, _, _)
ForCalls(calls, i, acc) ==
    IF i > Len(calls) \/ acc.raised THEN acc
    ELSE ForCalls(calls, i + 1, OneCall(calls[i], acc))

\* while response.function_calls:
LoopContinues(resp) == resp.calls # <<>>

(***************************************************************************)
(* The handlers' state.                                                    *)
(***************************************************************************)
NoSession == 0      \* None as a chat session

EmptyChatData == [keys |-> {}, gemini_chat |-> NoSession]

\* A Telegram call: reply_text (kind "text"), send_chat_action ("action"),
\* send_photo ("photo"); resp is the number of the response whose text is
\* sent; ok tells whether the call returned (the message went out) or raised.
Tg(kind, body, resp) == [kind |-> kind, body |-> body, resp |-> resp, ok |-> TRUE]
Outcome(call, ok) == [call EXCEPT !.ok = ok]
TYPING      == Tg("action", "typing", 0)
WELCOME     == Tg("text", "welcome, context reset", 0)
NO_CLIENT   == Tg("text", "internal error: Gemini client not initialized", 0)
NO_SESSION  == Tg("text", "could not connect to the Gemini API", 0)
API_ERROR   == Tg("text", "Gemini API error, try again later", 0)
UNEXPECTED  == Tg("text", "unexpected error, check the logs", 0)
PHOTO       == Tg("photo", "plot_buffer", 0)
FinalText(resp) == Tg("text", "response.text", resp.id)

NoResponse == [id |-> 0, calls |-> <<>>]
NoMsg      == [session |-> NoSession, kind |-> "none", parts |-> <<>>]
NoExc      == [type |-> "none", at |-> "none"]
NoUpdate   == [handler |-> "none", chat |-> "none", text |-> FALSE]

\* The responses the model may give as response number n.
Responses(n) ==
    {[id |-> n, calls |-> q] :
        q \in SeqsUpTo(BotCalls, IF n <= MaxRounds THEN MaxCalls ELSE 0)}

\* get_chat_session(chat_id): the new session, or None without a client or
\* when chats.create raises.
get_chat_session(client, createOk, made) ==
    IF ~client THEN NoSession
    ELSE IF createOk /\ made < MaxSessions THEN made + 1
    ELSE NoSession

\* start_command that leaves chat_data as it is.
start_reset_keep(d) == d

\* Lines 226-227 on one chat's chat_data.
start_reset(d) == [d EXCEPT !.keys = @ \ {"gemini_chat"},
                            !.gemini_chat = NoSession]

\* The reply of the except clause that catches an exception of this type.
ErrorReply(type) == IF type = "APIError" THEN API_ERROR ELSE UNEXPECTED

\* The except clause an exception raised in the try block reaches.
ExceptClause(type) == IF type = "APIError" THEN "except_api" ELSE "except_other"

\* Lines 306-315 that keep 'plot_buffer' after sending the photo.
final_reply_keep(log, resp, keys, textOk, photoOk) ==
    IF ~textOk
    THEN [sent |-> Append(log, Outcome(FinalText(resp), FALSE)), keys |-> keys,
          raised |-> TRUE]
    ELSE IF "plot_buffer" \in keys
    THEN [sent |-> log \o <<FinalText(resp), Outcome(PHOTO, photoOk)>>,
          keys |-> keys, raised |-> ~photoOk]
    ELSE [sent |-> Append(log, FinalText(resp)), keys |-> keys, raised |-> FALSE]

\* Lines 306-315: the final text, then the photo when 'plot_buffer' is in
\* chat_data, then del chat_data['plot_buffer'].  textOk and photoOk tell
\* whether the Telegram call returns or raises.
final_reply(log, resp, keys, textOk, photoOk) ==
    IF ~textOk
    THEN [sent |-> Append(log, Outcome(FinalText(resp), FALSE)), keys |-> keys,
          raised |-> TRUE]
    ELSE IF "plot_buffer" \in keys
    THEN [sent |-> log \o <<FinalText(resp), Outcome(PHOTO, photoOk)>>,
          keys |-> IF photoOk THEN keys \ {"plot_buffer"} ELSE keys,
          raised |-> ~photoOk]
    ELSE [sent |-> Append(log, FinalText(resp)), keys |-> keys, raised |-> FALSE]

BotIdle ==
    /\ GENAI_CLIENT = FALSE
    /\ chat_data = [c \in Chats |-> EmptyChatData]
    /\ sessions = 0 /\ pc = "off" /\ upd = NoUpdate
    /\ chat_session = NoSession /\ response = NoResponse /\ inflight = NoMsg
    /\ exc = NoExc /\ status = "returned" /\ sent = <<>> /\ llm_calls = 0
    /\ executed = <<>> /\ created = FALSE /\ first_final = 0

BotInit ==
    /\ GENAI_CLIENT \in BOOLEAN
    /\ chat_data = [c \in Chats |-> EmptyChatData]
    /\ sessions = 0 /\ pc = "idle" /\ upd = NoUpdate
    /\ chat_session = NoSession /\ response = NoResponse /\ inflight = NoMsg
    /\ exc = NoExc /\ status = "returned" /\ sent = <<>> /\ llm_calls = 0
    /\ executed = <<>> /\ created = FALSE /\ first_final = 0

\* A handler ends: it returns, or the exception of a Telegram call made
\* outside the try block leaves it.
Ends(tgOk) == /\ status' = (IF tgOk THEN "returned" ELSE "raised")
              /\ pc' = "done"

\* start_command, lines 215-227.  Nothing guards update.message: for an
\* update that has none (an edited /start) line 219 raises AttributeError
\* before any Telegram call is made.
StartCommand ==
    /\ pc = "idle"
    /\ \E c \in Chats, hasMessage \in BOOLEAN, tgOk \in BOOLEAN :
         /\ upd' = [handler |-> "start", chat |-> c, text |-> hasMessage]
         /\ IF ~hasMessage
            THEN sent' = <<>> /\ Ends(FALSE) /\ UNCHANGED chat_data
            ELSE /\ sent' = <<Outcome(WELCOME, tgOk)>>
                 /\ chat_data' = IF tgOk
                                 THEN [chat_data EXCEPT ![c] = start_reset(@)]
                                 ELSE chat_data
                 /\ Ends(tgOk)
    /\ chat_session' = NoSession /\ response' = NoResponse /\ inflight' = NoMsg
    /\ exc' = NoExc /\ llm_calls' = 0 /\ executed' = <<>> /\ created' = FALSE
    /\ first_final' = 0
    /\ UNCHANGED <<GENAI_CLIENT, sessions, notBot>>

\* handle_message, lines 235-260: the checks, the chat session, the typing
\* action and the send_message(user_text) call.
HandleMessage ==
    /\ pc = "idle"
    /\ \E c \in Chats, isText \in BOOLEAN, createOk \in BOOLEAN, tgOk \in BOOLEAN :
         /\ upd' = [handler |-> "message", chat |-> c, text |-> isText]
         /\ IF ~isText
            THEN /\ sent' = <<>> /\ Ends(TRUE)
                 /\ chat_session' = NoSession /\ inflight' = NoMsg
                 /\ llm_calls' = 0 /\ created' = FALSE
                 /\ UNCHANGED <<chat_data, sessions>>
            ELSE IF ~GENAI_CLIENT
            THEN /\ sent' = <<Outcome(NO_CLIENT, tgOk)>> /\ Ends(tgOk)
                 /\ chat_session' = NoSession /\ inflight' = NoMsg
                 /\ llm_calls' = 0 /\ created' = FALSE
                 /\ UNCHANGED <<chat_data, sessions>>
            ELSE LET needs == "gemini_chat" \notin chat_data[c].keys
                     got == get_chat_session(GENAI_CLIENT, createOk, sessions)
                     cd == IF needs
                           THEN [chat_data EXCEPT ![c] =
                                   [keys |-> @.keys \cup {"gemini_chat"},
                                    gemini_chat |-> got]]
                           ELSE chat_data
                     cs == cd[c].gemini_chat
                 IN /\ chat_data' = cd
                    /\ sessions' = IF needs /\ got # NoSession THEN got ELSE sessions
                    /\ created' = needs
                    /\ chat_session' = cs
                    /\ IF cs = NoSession
                       THEN /\ sent' = <<Outcome(NO_SESSION, tgOk)>> /\ Ends(tgOk)
                            /\ inflight' = NoMsg /\ llm_calls' = 0
                       ELSE IF ~tgOk
                       THEN /\ sent' = <<Outcome(TYPING, FALSE)>> /\ Ends(FALSE)
                            /\ inflight' = NoMsg /\ llm_calls' = 0
                       ELSE /\ sent' = <<TYPING>>
                            /\ status' = "running" /\ pc' = "await"
                            /\ inflight' = [session |-> cs, kind |-> "user",
                                            parts |-> <<>>]
                            /\ llm_calls' = 1
    /\ response' = NoResponse /\ exc' = NoExc /\ executed' = <<>>
    /\ first_final' = 0
    /\ UNCHANGED <<GENAI_CLIENT, notBot>>

\* The session takes the message of a send_message call; the handler holds
\* no copy of its parts and waits for the call to come back.
SessionTakes ==
    /\ pc = "await"
    /\ inflight' = [inflight EXCEPT !.parts = <<>>]
    /\ executed' = <<>>
    /\ pc' = "pending"
    /\ UNCHANGED <<GENAI_CLIENT, chat_data, sessions, upd, chat_session, response,
                   exc, status, sent, llm_calls, created, first_final, notBot>>

\* chat_session.send_message(...) comes back, lines 260 and 301-302: it
\* raises, or it gives the next response; after tool responses the typing
\* action follows.
ReceiveResponse ==
    /\ pc = "pending"
    /\ \/ \E type \in {"APIError", "Exception"} :
            /\ exc' = [type |-> type, at |-> "llm"]
            /\ pc' = ExceptClause(type)
            /\ UNCHANGED <<response, first_final, sent>>
       \/ \E r \in Responses(llm_calls), tgOk \in BOOLEAN :
            /\ response' = r
            /\ first_final' = IF first_final = 0 /\ r.calls = <<>>
                              THEN r.id ELSE first_final
            /\ IF inflight.kind = "tools"
               THEN /\ sent' = Append(sent, Outcome(TYPING, tgOk))
                    /\ IF tgOk
                       THEN pc' = "loop" /\ UNCHANGED exc
                       ELSE /\ exc' = [type |-> "Exception", at |-> "telegram"]
                            /\ pc' = ExceptClause("Exception")
               ELSE pc' = "loop" /\ UNCHANGED <<sent, exc>>
    /\ inflight' = NoMsg
    /\ UNCHANGED <<GENAI_CLIENT, chat_data, sessions, upd, chat_session, status,
                   llm_calls, executed, created, notBot>>

\* One round of the while loop, lines 263-301: the for loop over the calls
\* and the send_message(tool_responses) call.
ToolRound ==
    /\ pc = "loop"
    /\ LoopContinues(response)
    /\ LET r == ForCalls(response.calls, 1, NoParts) IN
         /\ executed' = r.executed
         /\ chat_data' = IF r.plot
                         THEN [chat_data EXCEPT ![upd.chat].keys =
                                                   @ \cup {"plot_buffer"}]
                         ELSE chat_data
         /\ IF r.raised
            THEN /\ exc' = [type |-> "Exception", at |-> "tool"]
                 /\ pc' = ExceptClause("Exception")
                 /\ UNCHANGED <<inflight, llm_calls>>
            ELSE /\ inflight' = [session |-> chat_session, kind |-> "tools",
                                 parts |-> r.parts]
                 /\ llm_calls' = llm_calls + 1
                 /\ pc' = "await"
                 /\ UNCHANGED exc
    /\ UNCHANGED <<GENAI_CLIENT, sessions, upd, chat_session, response, status,
                   sent, created, first_final, notBot>>

\* Lines 306-315, after the loop: the final text and the photo.
FinalReply ==
    /\ pc = "loop"
    /\ ~LoopContinues(response)
    /\ \E textOk \in BOOLEAN, photoOk \in BOOLEAN :
         LET r == final_reply(sent, response, chat_data[upd.chat].keys,
                              textOk, photoOk) IN
           /\ sent' = r.sent
           /\ chat_data' = [chat_data EXCEPT ![upd.chat].keys = r.keys]
           /\ IF r.raised
              THEN /\ exc' = [type |-> "Exception", at |-> "telegram"]
                   /\ pc' = ExceptClause("Exception")
                   /\ UNCHANGED status
              ELSE /\ status' = "returned" /\ pc' = "done" /\ UNCHANGED exc
    /\ UNCHANGED <<GENAI_CLIENT, sessions, upd, chat_session, response, inflight,
                   llm_calls, executed, created, first_final, notBot>>

\* except APIError, lines 317-320.  Line 318 reads e.status_code to build
\* the log text before anything is sent.  The exception class belongs to the
\* google-genai package, which is not part of the program: the read gives a
\* value (attrOk) or raises AttributeError, and then the clause is left with
\* no reply_text call made.
ExceptAPIError ==
    /\ pc = "except_api"
    /\ \E attrOk \in BOOLEAN, tgOk \in BOOLEAN :
         IF ~attrOk
         THEN Ends(FALSE) /\ UNCHANGED sent
         ELSE /\ sent' = Append(sent, Outcome(ErrorReply("APIError"), tgOk))
              /\ Ends(tgOk)
    /\ UNCHANGED <<GENAI_CLIENT, chat_data, sessions, upd, chat_session, response,
                   inflight, exc, llm_calls, executed, created, first_final, notBot>>

\* except Exception, lines 321-324.
ExceptException ==
    /\ pc = "except_other"
    /\ \E tgOk \in BOOLEAN :
         /\ sent' = Append(sent, Outcome(ErrorReply("Exception"), tgOk))
         /\ Ends(tgOk)
    /\ UNCHANGED <<GENAI_CLIENT, chat_data, sessions, upd, chat_session, response,
                   inflight, exc, llm_calls, executed, created, first_final, notBot>>

\* The handler is over: the application drops its frame and is ready for
\* the next update.
Return ==
    /\ pc = "done"
    /\ pc' = "idle" /\ upd' = NoUpdate
    /\ chat_session' = NoSession /\ response' = NoResponse /\ inflight' = NoMsg
    /\ exc' = NoExc /\ status' = "returned" /\ sent' = <<>> /\ llm_calls' = 0
    /\ executed' = <<>> /\ created' = FALSE /\ first_final' = 0
    /\ UNCHANGED <<GENAI_CLIENT, chat_data, sessions, notBot>>

(***************************************************************************)
(* Specifications.                                                         *)
(***************************************************************************)
InitSql  == SqlInit /\ MainIdle /\ LoadIdle /\ BotIdle
NextSql  == SqlCall
SpecSql  == InitSql /\ [][NextSql]_vars

InitMain == MainInit /\ SqlIdle /\ LoadIdle /\ BotIdle
NextMain == MainImport \/ MainRun
SpecMain == InitMain /\ [][NextMain]_vars

InitLoad == LoadInit /\ SqlIdle /\ MainIdle /\ BotIdle
NextLoad == LoadFilter \/ LoadConnect \/ LoadInsert \/ LoadCommit
SpecLoad == InitLoad /\ [][NextLoad]_vars

InitBot == BotInit /\ SqlIdle /\ MainIdle /\ LoadIdle
NextBot == StartCommand \/ HandleMessage \/ SessionTakes \/ ReceiveResponse
           \/ ToolRound \/ FinalReply \/ ExceptAPIError \/ ExceptException
           \/ Return
SpecBot == InitBot /\ [][NextBot]_vars

(***************************************************************************)
(* Claims about sql_query_executor, main() and load_data.py.               *)
(***************************************************************************)

\* C4: sql_query_executor never raises and returns exactly one of four
\* results: the connection error when db_connect gave None (and then no
\* query is run), the ERROR_SQL text when running the query raised, the
\* no-data text when the result has no rows, otherwise the CSV of the first
\* min(n, 50) of the n rows in result order; a connection that was opened
\* is closed when the call returns.
C4_SqlResults ==
    sq_pc = "done" =>
      /\ ~sq_out.raised
      /\ ~sq_world.conn =>
           sq_out.ret = ERR_SQL_CONNECT /\ ~sq_out.queried /\ ~sq_out.opened
      /\ (sq_world.conn /\ sq_world.raises) => sq_out.ret = ERR_SQL
      /\ (sq_world.conn /\ ~sq_world.raises /\ sq_world.nrows = 0) =>
           sq_out.ret = NO_DATA
      /\ (sq_world.conn /\ ~sq_world.raises /\ sq_world.nrows > 0) =>
           /\ sq_out.ret.type = "str" /\ sq_out.ret.tag = "csv"
           /\ Len(sq_out.ret.rows) =
                (IF sq_world.nrows < 50 THEN sq_world.nrows ELSE 50)
           /\ \A i \in DOMAIN sq_out.ret.rows : sq_out.ret.rows[i] = i
      /\ sq_world.conn => sq_out.opened
      /\ sq_out.opened => sq_out.closed

\* A query of more than 50 rows has returned its first 50 as CSV.
C4_Witness ==
    /\ sq_pc = "done" /\ sq_world.nrows > 50
    /\ sq_out.ret.tag = "csv" /\ Len(sq_out.ret.rows) = 50 /\ sq_out.closed

\* C6: main() builds and starts the application only when the token and
\* the four DB settings are all set (hold a non-empty value, which is what
\* the code tests); when one is missing it returns having built nothing and
\* registered no handler; a started application runs in webhook mode when
\* WEBHOOK_URL is set and in polling mode otherwise, never in both.
C6_IsSet(v) == v \notin {None, ""}
C6_MainStarts ==
    /\ mn_app.built => mn_pc = "done"
    /\ mn_pc = "done" =>
      LET required == DbNames \cup {"TELEGRAM_BOT_TOKEN"}
          allSet == \A n \in required : C6_IsSet(mn_env[n])
      IN /\ allSet <=> mn_app.built
         /\ ~allSet => (mn_app.handlers = <<>> /\ mn_app.modes = <<>>)
         /\ allSet =>
              /\ mn_app.handlers = <<"start_command", "handle_message">>
              /\ mn_app.modes = IF C6_IsSet(mn_env["WEBHOOK_URL"])
                                THEN <<"webhook">> ELSE <<"polling">>

\* main() has started the bot in polling mode, WEBHOOK_URL being empty.
C6_Witness ==
    /\ mn_pc = "done" /\ mn_app.built /\ mn_app.modes = <<"polling">>
    /\ mn_env["WEBHOOK_URL"] = ""

\* C5: in a run of load_data.py that ends with the success message the rows
\* inserted are exactly the CSV rows whose Date parses to (UTC) year 2024
\* and whose Industry_Tag is 'technology', each once and in CSV order, with
\* exactly the CSV's columns (so without Year_Extracted); and when no row
\* passes the filter the script exits with no database connection opened.
C5_Wanted ==
    {i \in DOMAIN ld_csv.rows :
        /\ ld_csv.rows[i].date.parses
        /\ ld_csv.rows[i].date.year + ld_csv.rows[i].date.carry = 2024
        /\ ld_csv.rows[i].tag = "technology"}
C5_LoadedRows ==
    /\ ld_msg = "success" =>
         /\ Len(ld_table) = Cardinality(C5_Wanted)
         /\ \A k \in DOMAIN ld_table :
              /\ ld_table[k].row \in C5_Wanted
              /\ ld_table[k].columns = ld_csv.header
              /\ \A c \in DOMAIN ld_table[k].columns :
                   ld_table[k].columns[c] # "Year_Extracted"
         /\ \A j, k \in DOMAIN ld_table :
              j < k => ld_table[j].row < ld_table[k].row
    /\ (ld_pc \notin {"off", "filter"} /\ C5_Wanted = {}) =>
         (ld_pc = "exit" /\ ld_conn = "none" /\ ld_table = <<>>)

\* A run succeeded that inserted rows 1 and 3 of a three-row file whose
\* second row is written as 2024 and falls in 2023 once taken to UTC.
C5_Witness ==
    /\ ld_msg = "success" /\ Len(ld_csv.rows) = 3
    /\ Len(ld_table) = 2 /\ ld_table[1].row = 1 /\ ld_table[2].row = 3
    /\ ld_csv.rows[2].date = [parses |-> TRUE, year |-> 2024, carry |-> -1]
    /\ ld_csv.rows[2].tag = "technology"

(***************************************************************************)
(* Claims about the handlers.                                              *)
(***************************************************************************)
Texts(log)  == SelectSeq(log, LAMBDA e : e.kind = "text")
ErrorTexts(log) ==
    SelectSeq(log, LAMBDA e : e.kind = "text" /\ e.body \in {API_ERROR.body, UNEXPECTED.body})
InExcept == pc \in {"except_api", "except_other"}

\* The result the claim C1 gives for a call: the string form of the tool's
\* return value for the three tools, the SUCCESS text in place of a buffer
\* plot_data returned, the unknown-function text for any other name.
C1_Result(call) ==
    IF call.name \in {"get_db_schema", "sql_query_executor", "plot_data"}
    THEN LET ret == CASE call.name = "get_db_schema" -> get_db_schema(call.world)
                      [] call.name = "sql_query_executor" ->
                             sql_query_executor(call.world).ret
                      [] call.name = "plot_data" -> plot_data(call.world)
         IN IF call.name = "plot_data" /\ ret.type = "BytesIO"
            THEN SUCCESS_PLOT ELSE PyStr(ret)
    ELSE ERR_UNKNOWN

\* The step answers the response held: one send_message on the same session
\* with one function response per call, in call order, and only the known
\* tools were executed.
C1_Answered ==
    LET calls == response.calls
        known == SelectSeq(calls, LAMBDA c :
                     c.name \in {"get_db_schema", "sql_query_executor", "plot_data"})
    IN /\ pc' = "await"
       /\ llm_calls' = llm_calls + 1
       /\ inflight' = [session |-> chat_session, kind |-> "tools",
                       parts |-> [i \in 1..Len(calls) |->
                                    [name |-> calls[i].name,
                                     result |-> C1_Result(calls[i])]]]
       /\ executed' = [i \in 1..Len(known) |-> known[i].name]
       /\ chat_session' = chat_session

\* C1 as stated: every model response with function calls is answered with
\* one message of one function response per call.
C1_Original ==
    [][(pc = "loop" /\ response.calls # <<>>) => C1_Answered]_vars

\* C1, amended: every model response with function calls whose calls are
\* processed without an exception (no tool call raises) is answered, on the
\* same chat session, with one message of one function response per call, in call order and under the call's name,
\* holding the string form of the tool's return value (the SUCCESS text for
\* a buffer from plot_data) or, for an unknown name, the unknown-function
\* text with no tool executed.  When processing a call raises, no message
\* is sent back for that response.
C1_ToolResponses ==
    [][(pc = "loop" /\ response.calls # <<>>) =>
          IF exc'.at = "tool"
          THEN InExcept' /\ inflight' = NoMsg /\ llm_calls' = llm_calls
          ELSE C1_Answered]_vars

\* A response calling plot_data (a buffer came back) and then an unknown
\* function has been answered.
C1_Witness ==
    /\ pc = "await" /\ inflight.kind = "tools"
    /\ inflight.session = chat_session
    /\ inflight.parts = << [name |-> "plot_data", result |-> SUCCESS_PLOT],
                           [name |-> "drop_table", result |-> ERR_UNKNOWN] >>
    /\ executed = <<"plot_data">>

\* A handling of a text message has ended with no exception raised.
C2_EndedClean ==
    /\ pc = "done" /\ upd.handler = "message" /\ upd.text
    /\ status = "returned" /\ exc.type = "none"

\* The only text sent is that of the first response without function calls.
C2_OnlyFinalText ==
    /\ first_final > 0
    /\ Texts(sent) = << [kind |-> "text", body |-> "response.text",
                         resp |-> first_final, ok |-> TRUE] >>

\* C2 as stated: a text message handled without an exception gets the text
\* of the first response without function calls exactly once, and
\* 'plot_buffer' is not in chat_data when the handler returns.
C2_Original ==
    C2_EndedClean =>
      (C2_OnlyFinalText /\ "plot_buffer" \notin chat_data[upd.chat].keys)

\* C2, amended: when handle_message handles a text message with an
\* initialized client and a chat session that is not None (it reaches the
\* try block) and no exception is raised, the user is sent the text of the
\* first model response without function calls exactly once and no text
\* before that response is received; after the text a photo is sent if and
\* only if 'plot_buffer' is in chat_data, and at the return 'plot_buffer'
\* is not in chat_data.
C2_FinalReply ==
    /\ []((status = "running" /\ first_final = 0 /\ exc.type = "none")
            => Texts(sent) = <<>>)
    /\ []((C2_EndedClean /\ llm_calls > 0) =>
            /\ C2_OnlyFinalText
            /\ first_final = response.id
            /\ "plot_buffer" \notin chat_data[upd.chat].keys)
    /\ [][(pc = "loop" /\ response.calls = <<>> /\ pc' = "done") =>
            /\ status' = "returned"
            /\ sent' = sent
                 \o << [kind |-> "text", body |-> "response.text",
                        resp |-> response.id, ok |-> TRUE] >>
                 \o (IF "plot_buffer" \in chat_data[upd.chat].keys
                     THEN << [kind |-> "photo", body |-> "plot_buffer",
                              resp |-> 0, ok |-> TRUE] >>
                     ELSE <<>>)
            /\ "plot_buffer" \notin chat_data'[upd.chat].keys]_vars

\* A handling ended cleanly after one tool round, with the text of the
\* second response and then the photo.
C2_Witness ==
    /\ C2_EndedClean /\ first_final = 2 /\ Len(sent) = 4
    /\ sent[3].kind = "text" /\ sent[3].resp = 2 /\ sent[4].kind = "photo"
    /\ "plot_buffer" \notin chat_data[upd.chat].keys

\* The step begins the handling of a text message of chat c.
C3_TextMessage(c) ==
    /\ pc = "idle"
    /\ upd' = [handler |-> "message", chat |-> c, text |-> TRUE]

\* After a /start that completed, the chat has no 'gemini_chat'.
C3_ResetDone ==
    (pc = "done" /\ upd.handler = "start" /\ status = "returned") =>
       /\ "gemini_chat" \notin chat_data[upd.chat].keys
       /\ sent = <<WELCOME>>

\* C3 as stated: the next text message of a chat whose /start completed
\* calls get_chat_session and uses no session created before.
C3_Original ==
    /\ []C3_ResetDone
    /\ [][\A c \in Chats :
            (C3_TextMessage(c) /\ "gemini_chat" \notin chat_data[c].keys) =>
               (created' /\ chat_session' \notin 1..sessions)]_vars

\* C3, amended: start_command sends the welcome message and, once it
\* completes, 'gemini_chat' is not in that chat's chat_data, and stays out
\* of it until a text message of that chat is handled; if the Gemini client
\* is initialized, that message calls get_chat_session and uses the session
\* it returns, never one created before the /start; without a client it
\* calls nothing and no session is used.
C3_StartResets ==
    /\ []C3_ResetDone
    /\ [][\A c \in Chats :
            ("gemini_chat" \notin chat_data[c].keys /\ ~C3_TextMessage(c)) =>
               "gemini_chat" \notin chat_data'[c].keys]_vars
    /\ [][\A c \in Chats :
            (C3_TextMessage(c) /\ "gemini_chat" \notin chat_data[c].keys) =>
               /\ created' = GENAI_CLIENT
               /\ chat_session' \notin 1..sessions
               /\ chat_session' = chat_data'[c].gemini_chat]_vars

\* chatA talks on a second session while chatB holds none: the first
\* session was dropped by a /start and the next message made a new one.
C3_Witness ==
    /\ pc = "await" /\ upd.chat = "chatA" /\ created
    /\ chat_session = 2 /\ sessions = 2
    /\ chat_data["chatA"].gemini_chat = 2
    /\ "gemini_chat" \notin chat_data["chatB"].keys

\* A handling in which the try block raised has ended.
C7_EndedAfterRaise == pc = "done" /\ exc.type # "none"

\* C7: an exception raised inside the try block of handle_message is caught
\* and does not leave the handler, and the user is sent exactly one error
\* reply: the Gemini-API text for an APIError, the generic text otherwise.
C7_Original ==
    C7_EndedAfterRaise =>
      /\ status = "returned"
      /\ ErrorTexts(sent) =
           << IF exc.type = "APIError" THEN API_ERROR ELSE UNEXPECTED >>

\* send_message(user_text) raised APIError and the handling ended with an
\* exception leaving the handler and nothing sent after the typing action:
\* the except clause raised before its reply_text call.
C7_Witness ==
    /\ C7_EndedAfterRaise /\ exc = [type |-> "APIError", at |-> "llm"]
    /\ llm_calls = 1 /\ status = "raised"
    /\ sent = <<TYPING>>

\* A text reply (the final answer or an error message) went out.
C8_Replied ==
    \E i \in DOMAIN sent :
       /\ sent[i].kind = "text" /\ sent[i].ok
       /\ sent[i].body \in {"response.text", API_ERROR.body, UNEXPECTED.body}

\* C8: the loop ends when a response has no function calls or an exception
\* is raised, and every text message handled with an initialized client and
\* a session that is not None gets a text reply, the final answer or an
\* error message: at the end of such a handling a text reply has gone out.
C8_Original ==
    (/\ pc = "done" /\ upd.handler = "message" /\ upd.text
     /\ GENAI_CLIENT /\ chat_session # NoSession) => C8_Replied

\* A handling went through MaxRounds rounds of tool calls, the next
\* send_message raised APIError, and it ended with no text reply sent.
C8_Witness ==
    /\ pc = "done" /\ upd.handler = "message" /\ upd.text
    /\ GENAI_CLIENT /\ chat_session # NoSession
    /\ llm_calls = MaxRounds + 1 /\ exc = [type |-> "APIError", at |-> "llm"]
    /\ Texts(sent) = <<>>

====
